---- MODULE Spec2Model ----
(***************************************************************************)
(* Model of packages/next/next-server/server/config.ts: the default        *)
(* configuration record, assignDefaults, normalizeConfig and loadConfig.   *)
(*                                                                         *)
(* JavaScript values are tagged records [t, v, r, id]:                     *)
(*   t   the type ("string", "boolean", "null", "function", "array",       *)
(*       "object" for a plain record whose constructor is Object)          *)
(*   v   the payload of a primitive                                        *)
(*   r   the own enumerable properties (of a record or of an array)        *)
(*   id  the identity of a heap object: "default" for a sub-record of      *)
(*       defaultConfig, "user" for one the user built, "merged" for one    *)
(*       assignDefaults built; "prim" for a primitive                      *)
(* A record of string keys in insertion order is [nil, keys, props].       *)
(* amp.canonicalBase is a sequence of one-character strings, so endsWith   *)
(* and slice are computed as the code computes them.                       *)
(***************************************************************************)
EXTENDS Integers, Sequences, FiniteSets, TLC

VARIABLES
  defaultConfig,  \* the module-level default record (config.ts:88)
  used,           \* the flag execOnce closes over (config.ts:141)
  warnings,       \* number of times the warning body has been printed
  userModule,     \* what require() hands back for next.config.js
  customConfig,   \* the inline configuration object the caller holds
  ncalls,         \* loadConfig calls made so far
  call            \* the last loadConfig call: its inputs and its outcome

vars == <<defaultConfig, used, warnings, userModule, customConfig, ncalls, call>>

\* ------------------------------------------------------------------ bounds
MaxKeys == 2      \* keys of the user configuration under test
MaxCalls == 2     \* loadConfig calls in one process

\* ------------------------------------------------------------ JS values
NoProps == [k \in {} |-> ""]

Str(s) == [t |-> "string", v |-> s, r |-> NoProps, id |-> "prim"]
Bool(b) == [t |-> "boolean", v |-> b, r |-> NoProps, id |-> "prim"]
Null == [t |-> "null", v |-> "", r |-> NoProps, id |-> "prim"]
Fun(name, id) == [t |-> "function", v |-> name, r |-> NoProps, id |-> id]
Obj(props, id) == [t |-> "object", v |-> "", r |-> props, id |-> id]
Arr(seq, id) ==
  [t |-> "array", v |-> "",
   r |-> [k \in {ToString(i - 1) : i \in 1..Len(seq)} |->
            seq[CHOOSE i \in 1..Len(seq) : ToString(i - 1) = k]],
   id |-> id]

\* A record with ordered keys; Nil stands for null / undefined / no record.
Nil == [nil |-> TRUE, keys |-> <<>>, props |-> NoProps]
Rec(keys, props) == [nil |-> FALSE, keys |-> keys, props |-> props]

Has(rec, key) == key \in DOMAIN rec.props

\* JavaScript truthiness of a tagged value.
Truthy(val) ==
  ~ \/ val.t = "null"
    \/ (val.t = "string" /\ val.v = "")
    \/ (val.t = "boolean" /\ val.v = "false")

\* rec[key] used as a condition: undefined is falsy.
TruthyAt(rec, key) == Has(rec, key) /\ Truthy(rec.props[key])

\* maybeObject.constructor === Object
IsPlainObject(val) == val.t = "object"

\* a === b: primitives by value, heap objects by identity.
StrictEq(a, b) ==
  IF a.id = "prim" \/ b.id = "prim" THEN a = b
  ELSE a.id = "default" /\ b.id = "default" /\ a = b

\* The characters of the strings the default record holds.
Chars(s) ==
  CASE s = ".next" -> <<".", "n", "e", "x", "t">>
    [] s = "default" -> <<"d", "e", "f", "a", "u", "l", "t">>
    [] s = "server" -> <<"s", "e", "r", "v", "e", "r">>
    [] OTHER -> <<>>

\* What {...val} copies: the own enumerable properties of val. A record or
\* an array gives its properties (an array's are its indices), a string its
\* characters by index, any other primitive or a function nothing.
OwnProps(val) ==
  CASE val.t \in {"object", "array"} -> val.r
    [] val.t = "string" ->
         LET cs == Chars(val.v)
         IN [k \in {ToString(i - 1) : i \in 1..Len(cs)} |->
               cs[CHOOSE i \in 1..Len(cs) : ToString(i - 1) = k]]
    [] OTHER -> NoProps

\* {...a, ...b} on property maps: later keys win.
SpreadProps(a, b) ==
  [k \in DOMAIN a \cup DOMAIN b |-> IF k \in DOMAIN b THEN b[k] ELSE a[k]]

RECURSIVE Without(_, _)
Without(seq, ks) ==
  IF seq = <<>> THEN <<>>
  ELSE IF Head(seq) \in ks THEN Without(Tail(seq), ks)
       ELSE <<Head(seq)>> \o Without(Tail(seq), ks)

Range(seq) == {seq[i] : i \in 1..Len(seq)}

\* {...a, ...b} on ordered records: a's keys keep their place, b's new keys
\* follow in b's order.
Spread(a, b) ==
  Rec(a.keys \o Without(b.keys, Range(a.keys)), SpreadProps(a.props, b.props))

\* ------------------------------------------------------------- constants
CONFIG_FILE == "next.config.js"

targets == <<"server", "serverless", "experimental-serverless-trace">>
reactModes == <<"legacy", "blocking", "concurrent">>

includes(list, x) == \E i \in 1..Len(list) : list[i] = x

CIRCLE_NODE_TOTAL == 0
HostCpus == 4
Max(a, b) == IF a >= b THEN a ELSE b
cpus == Max(1, (IF CIRCLE_NODE_TOTAL # 0 THEN CIRCLE_NODE_TOTAL ELSE HostCpus) - 1)

DefaultKeys ==
  <<"env", "webpack", "webpackDevMiddleware", "distDir", "assetPrefix",
    "configOrigin", "useFileSystemPublicRoutes", "generateBuildId",
    "generateEtags", "pageExtensions", "target", "poweredByHeader",
    "compress", "devIndicators", "onDemandEntries", "amp",
    "exportTrailingSlash", "experimental", "future", "serverRuntimeConfig",
    "publicRuntimeConfig", "reactStrictMode">>

InitialDefault ==
  Rec(DefaultKeys,
      [env |-> Arr(<<>>, "default"),
       webpack |-> Null,
       webpackDevMiddleware |-> Null,
       distDir |-> Str(".next"),
       assetPrefix |-> Str(""),
       configOrigin |-> Str("default"),
       useFileSystemPublicRoutes |-> Bool("true"),
       generateBuildId |-> Fun("generateBuildId", "default"),
       generateEtags |-> Bool("true"),
       pageExtensions |-> Arr(<<"tsx", "ts", "jsx", "js">>, "default"),
       target |-> Str("server"),
       poweredByHeader |-> Bool("true"),
       compress |-> Bool("true"),
       devIndicators |->
         Obj([buildActivity |-> "true", autoPrerender |-> "true"], "default"),
       onDemandEntries |->
         Obj([maxInactiveAge |-> "60000", pagesBufferLength |-> "2"], "default"),
       amp |-> Obj([canonicalBase |-> <<>>], "default"),
       exportTrailingSlash |-> Bool("false"),
       experimental |->
         Obj([ampBindInitData |-> "false", cpus |-> ToString(cpus),
              catchAllRouting |-> "false", css |-> "false",
              documentMiddleware |-> "false", granularChunks |-> "false",
              modern |-> "false", plugins |-> "false", profiling |-> "false",
              sprFlushToDisk |-> "true", deferScripts |-> "false",
              reactMode |-> "legacy", workerThreads |-> "false"], "default"),
       future |-> Obj([excludeDefaultMomentLocales |-> "false"], "default"),
       serverRuntimeConfig |-> Obj(NoProps, "default"),
       publicRuntimeConfig |-> Obj(NoProps, "default"),
       reactStrictMode |-> Bool("false")])

\* ------------------------------------------------- the user configurations
Https == <<"h", "t", "t", "p", "s", ":", "/", "/", "x", ".", "c", "o", "m", "/">>

UserKeyOrder ==
  <<"experimental", "distDir", "target", "amp", "publicRuntimeConfig",
    "serverRuntimeConfig", "onDemandEntries", "pageExtensions",
    "configOrigin", "customKey", "then">>

\* The values a user configuration may give each key.
UserValues(key) ==
  CASE key = "distDir" -> {Str("build"), Str("public")}
    [] key = "target" ->
         {Str(""), Str("server"), Str("serverless"),
          Str("experimental-serverless-trace"), Str("bogus")}
    [] key = "amp" ->
         {Obj([canonicalBase |-> cb], "user") :
            cb \in {<<"x">>, Https, <<"x", "/", "/">>}}
    [] key = "publicRuntimeConfig" ->
         {Obj(NoProps, "user"), Obj([a |-> "1"], "user")}
    [] key = "serverRuntimeConfig" -> {Obj([a |-> "1"], "user")}
    [] key = "experimental" ->
         {InitialDefault.props["experimental"],
          Obj([reactMode |-> "concurrent"], "user"),
          Obj([reactMode |-> "bogus"], "user")}
    [] key = "onDemandEntries" -> {Obj([maxInactiveAge |-> "5"], "user")}
    [] key = "pageExtensions" ->
         {Arr(<<"mdx">>, "user"), Obj([a |-> "1"], "user")}
    [] key = "configOrigin" -> {Str("custom")}
    [] key = "customKey" -> {Obj([a |-> "1"], "user")}
    [] key = "then" -> {Fun("then", "user")}

\* The property maps with at most n keys taken from the sequence keys.
RECURSIVE PropMaps(_, _)
PropMaps(keys, n) ==
  IF keys = <<>> \/ n = 0 THEN {NoProps}
  ELSE PropMaps(Tail(keys), n) \cup
       {[k \in DOMAIN p \cup {Head(keys)} |->
           IF k = Head(keys) THEN v ELSE p[k]] :
          p \in PropMaps(Tail(keys), n - 1), v \in UserValues(Head(keys))}

RECURSIVE Reverse(_)
Reverse(seq) ==
  IF seq = <<>> THEN <<>> ELSE Reverse(Tail(seq)) \o <<Head(seq)>>

\* A user configuration object: the keys in the order they were written,
\* which is the order Object.keys gives.
UserConfigs ==
  UNION {{Rec(Without(UserKeyOrder, Range(UserKeyOrder) \ DOMAIN p), p),
          Rec(Reverse(Without(UserKeyOrder, Range(UserKeyOrder) \ DOMAIN p)), p)} :
           p \in PropMaps(UserKeyOrder, MaxKeys)}

\* What next.config.js exports: a plain record, or a function of
\* (phase, { defaultConfig }) that builds the record anew on every call.
ModuleKinds == {"object", "function"}

\* The directories loadConfig is pointed at and the files findUp sees there.
Dirs == {"app", "legacy", "empty"}
Files(dir) ==
  CASE dir = "app" -> {"next.config.js"}
    [] dir = "legacy" -> {"next.config.json"}
    [] OTHER -> {}

Phases == {"phase-production-build"}

\* --------------------------------------------------------- the operations
\* The part of the process an operation reads and writes, threaded through
\* the operators below: the heap (defaultConfig, used, the required module),
\* the console, and the operation's own progress (error is "none" until a
\* throw, userConfig is the object being worked on).
Frame(dc, u, w, um) ==
  [defaultConfig |-> dc, used |-> u, warnings |-> w, userModule |-> um,
   userConfig |-> Nil, error |-> "none", result |-> Nil, lookups |-> 0]

Throw(st, err) == [st EXCEPT !.error = err, !.result = Nil]

\* execOnce of ../lib/utils: the wrapped function runs on the first call
\* only. ran is the process after the wrapped function has run from st.
execOnce(st, ran) ==
  IF st.used THEN st ELSE [ran EXCEPT !.used = TRUE]

\* The body handed to execOnce: the three console.warn lines, one warning.
consoleWarn(st) == [st EXCEPT !.warnings = @ + 1]

\* A warning printed on every call, as if the body were not wrapped.
experimentalWarningEveryTime(st) == consoleWarn(st)

experimentalWarning(st) == execOnce(st, consoleWarn(st))

\* key === 'experimental' && userConfig[key] && userConfig[key] !== defaultConfig[key]
warnExperimental(st, key) ==
  IF /\ key = "experimental"
     /\ Truthy(st.userConfig.props[key])
     /\ ~StrictEq(st.userConfig.props[key], st.defaultConfig.props[key])
  THEN experimentalWarning(st)
  ELSE st

\* The reserved name compared with the wrong key, so nothing is refused.
reservedDistDirWrongKey(uc, key) ==
  key = "distdir" /\ uc.props[key] = Str("public")

\* key === 'distDir' && userConfig[key] === 'public'
reservedDistDir(uc, key) ==
  key = "distDir" /\ uc.props[key] = Str("public")

\* The merge written into the default's own sub-record as well.
mergeValueInPlace(st, key) ==
  LET val == st.userConfig.props[key]
  IN IF Truthy(val) /\ IsPlainObject(val)
     THEN LET dflt == IF TruthyAt(st.defaultConfig, key)
                      THEN st.defaultConfig.props[key]
                      ELSE Obj(NoProps, "merged")
              merged == SpreadProps(OwnProps(dflt), OwnProps(val))
          IN IF TruthyAt(st.defaultConfig, key)
             THEN [st EXCEPT !.userConfig.props[key] = Obj(merged, "merged"),
                             !.defaultConfig.props[key].r = merged]
             ELSE [st EXCEPT !.userConfig.props[key] = Obj(merged, "merged")]
     ELSE st

\* userConfig[key] = { ...(defaultConfig[key] || {}), ...userConfig[key] }
\* when userConfig[key] is truthy and its constructor is Object.
mergeValue(st, key) ==
  LET val == st.userConfig.props[key]
  IN IF Truthy(val) /\ IsPlainObject(val)
     THEN LET dflt == IF TruthyAt(st.defaultConfig, key)
                      THEN st.defaultConfig.props[key]
                      ELSE Obj(NoProps, "merged")
          IN [st EXCEPT !.userConfig.props[key] =
                Obj(SpreadProps(OwnProps(dflt), OwnProps(val)), "merged")]
     ELSE st

\* The callback of Object.keys(userConfig).forEach for one key.
assignKey(st, key) ==
  LET st1 == warnExperimental(st, key)
  IN IF reservedDistDir(st1.userConfig, key)
     THEN Throw(st1, "distDir")
     ELSE mergeValue(st1, key)

\* forEach over the keys the object had when the loop began; a throw ends it.
RECURSIVE forEachKey(_, _, _)
forEachKey(keys, i, st) ==
  IF i > Len(keys) \/ st.error # "none" THEN st
  ELSE forEachKey(keys, i + 1, assignKey(st, keys[i]))

assignDefaults(userConfig, st) ==
  LET st1 == forEachKey(userConfig.keys, 1, [st EXCEPT !.userConfig = userConfig])
  IN IF st1.error # "none" THEN st1
     ELSE [st1 EXCEPT !.result = Spread(st1.defaultConfig, st1.userConfig)]

\* config = config(phase, { defaultConfig }) for a function export; a
\* result with a then function is refused.
normalizeConfig(phase, module, st) ==
  IF module.kind = "function"
  THEN IF Has(module.config, "then") /\ module.config.props["then"].t = "function"
       THEN Throw(st, "promise")
       ELSE [st EXCEPT !.userConfig = module.config]
  ELSE [st EXCEPT !.userConfig = module.config]

\* findUp.sync(names, { cwd: dir }): the first of names that exists, or "".
RECURSIVE findUpSync(_, _)
findUpSync(names, dir) ==
  IF names = <<>> THEN ""
  ELSE IF Head(names) \in Files(dir) THEN Head(names)
       ELSE findUpSync(Tail(names), dir)

endsWith(str, ch) == Len(str) > 0 /\ str[Len(str)] = ch
sliceLast(str) == SubSeq(str, 1, Len(str) - 1)

\* userConfig.amp.canonicalBase = (endsWith('/') ? slice(0, -1) : it) || ''
\* written into the amp object the user configuration refers to.
normalizeCanonicalBase(st) ==
  LET uc == st.userConfig
  IN IF /\ TruthyAt(uc, "amp")
        /\ "canonicalBase" \in DOMAIN uc.props["amp"].r
        /\ uc.props["amp"].r["canonicalBase"] # <<>>
     THEN LET canonicalBase == uc.props["amp"].r["canonicalBase"]
              stripped == IF endsWith(canonicalBase, "/")
                          THEN sliceLast(canonicalBase)
                          ELSE canonicalBase
              st1 == [st EXCEPT !.userConfig.props["amp"].r["canonicalBase"] = stripped]
          IN IF uc.props["amp"].id = "default"
             THEN [st1 EXCEPT !.defaultConfig.props["amp"].r["canonicalBase"] = stripped]
             ELSE st1
     ELSE st

invalidTarget(uc) ==
  TruthyAt(uc, "target") /\ ~includes(targets, uc.props["target"].v)

nonEmptyAt(uc, key) ==
  TruthyAt(uc, key) /\ DOMAIN OwnProps(uc.props[key]) # {}

\* The check made on publicRuntimeConfig alone.
runtimeConfigWithTargetPublicOnly(uc) ==
  /\ TruthyAt(uc, "target")
  /\ uc.props["target"] # Str("server")
  /\ nonEmptyAt(uc, "publicRuntimeConfig")

runtimeConfigWithTarget(uc) ==
  /\ TruthyAt(uc, "target")
  /\ uc.props["target"] # Str("server")
  /\ (nonEmptyAt(uc, "publicRuntimeConfig") \/ nonEmptyAt(uc, "serverRuntimeConfig"))

invalidReactMode(uc) ==
  /\ TruthyAt(uc, "experimental")
  /\ "reactMode" \in DOMAIN uc.props["experimental"].r
  /\ uc.props["experimental"].r["reactMode"] # ""
  /\ ~includes(reactModes, uc.props["experimental"].r["reactMode"])

\* The required module after the call: a record export is the very object
\* the checks wrote to; a function export built a new one.
keepModule(st) ==
  IF st.userModule.kind = "object" /\ ~st.userConfig.nil
  THEN [st EXCEPT !.userModule.config = st.userConfig]
  ELSE st

\* The runtime-config check made before the target check.
loadFoundRuntimeConfigFirst(phase, st) ==
  LET st1 == normalizeConfig(phase, st.userModule, st)
  IN IF st1.error # "none" THEN st1
     ELSE IF runtimeConfigWithTarget(st1.userConfig) THEN Throw(st1, "runtimeConfig")
     ELSE IF invalidTarget(st1.userConfig) THEN Throw(st1, "target")
     ELSE LET st2 == keepModule(normalizeCanonicalBase(st1))
          IN IF invalidReactMode(st2.userConfig)
             THEN Throw(st2, "reactMode")
             ELSE assignDefaults(
                    Spread(Rec(<<"configOrigin">>,
                               [configOrigin |-> Str(CONFIG_FILE)]),
                           st2.userConfig), st2)

\* The branch of loadConfig taken when a configuration file was found.
loadFound(phase, st) ==
  LET st1 == normalizeConfig(phase, st.userModule, st)
  IN IF st1.error # "none" THEN st1
     ELSE IF invalidTarget(st1.userConfig) THEN Throw(st1, "target")
     ELSE LET st2 == keepModule(normalizeCanonicalBase(st1))
          IN IF runtimeConfigWithTarget(st2.userConfig)
             THEN Throw(st2, "runtimeConfig")
             ELSE IF invalidReactMode(st2.userConfig)
             THEN Throw(st2, "reactMode")
             ELSE assignDefaults(
                    Spread(Rec(<<"configOrigin">>,
                               [configOrigin |-> Str(CONFIG_FILE)]),
                           st2.userConfig), st2)

\* The file looked for first, the inline configuration used only without one.
loadConfigFileFirst(phase, dir, custom, st) ==
  LET path == findUpSync(<<"next.config.js", "next.config.ts">>, dir)
      st1 == [st EXCEPT !.lookups = 1]
  IN IF path # ""
     THEN loadFound(phase, st1)
     ELSE IF ~custom.nil
     THEN assignDefaults(
            Spread(Rec(<<"configOrigin">>, [configOrigin |-> Str("server")]),
                   custom), st1)
     ELSE [st1 EXCEPT !.result = st1.defaultConfig]

loadConfig(phase, dir, custom, st) ==
  IF ~custom.nil
  THEN assignDefaults(
         Spread(Rec(<<"configOrigin">>, [configOrigin |-> Str("server")]),
                custom), st)
  ELSE LET path == findUpSync(<<"next.config.js", "next.config.ts">>, dir)
           st1 == [st EXCEPT !.lookups = 1]
       IN IF path # ""
          THEN loadFound(phase, st1)
          ELSE LET nonJsPath ==
                     findUpSync(<<"next.config.jsx", "next.config.tsx",
                                  "next.config.json">>, dir)
                   st2 == [st1 EXCEPT !.lookups = 2]
               IN IF nonJsPath # ""
                  THEN Throw(st2, "unsupported")
                  ELSE [st2 EXCEPT !.result = st2.defaultConfig]

isTargetLikeServerless(target) ==
  LET isServerless == target = "serverless"
      isServerlessTrace == target = "experimental-serverless-trace"
  IN isServerless \/ isServerlessTrace

\* ------------------------------------------------------------ the process
NoCall ==
  [n |-> 0, dir |-> "", inline |-> FALSE, source |-> "none",
   input |-> Nil, kind |-> "", error |-> "none", result |-> Nil,
   lookups |-> 0, warned |-> 0, moduleBefore |-> Nil, prevLoaded |-> Nil]

Init ==
  /\ defaultConfig = InitialDefault
  /\ used = FALSE
  /\ warnings = 0
  /\ \E cfg \in UserConfigs, kind \in ModuleKinds :
       /\ userModule = [kind |-> kind, config |-> cfg]
       /\ customConfig = cfg
  /\ ncalls = 0
  /\ call = NoCall

\* Where the user configuration of a call comes from.
SourceOf(dir, inline) ==
  IF inline THEN "inline"
  ELSE IF findUpSync(<<"next.config.js", "next.config.ts">>, dir) # "" THEN "file"
  ELSE IF Files(dir) # {} THEN "unsupported"
  ELSE "none"

\* One call loadConfig(phase, dir, customConfig), start to return or throw.
LoadConfig(phase, dir, inline) ==
  /\ ncalls < MaxCalls
  /\ LET st == loadConfig(phase, dir, IF inline THEN customConfig ELSE Nil,
                          Frame(defaultConfig, used, warnings, userModule))
         src == SourceOf(dir, inline)
     IN /\ defaultConfig' = st.defaultConfig
        /\ used' = st.used
        /\ warnings' = st.warnings
        /\ userModule' = st.userModule
        /\ call' = [n |-> ncalls + 1, dir |-> dir, inline |-> inline,
                    source |-> src,
                    input |-> CASE src = "inline" -> customConfig
                                [] src = "file" -> userModule.config
                                [] OTHER -> Nil,
                    kind |-> IF src = "file" THEN userModule.kind ELSE "",
                    error |-> st.error, result |-> st.result,
                    lookups |-> st.lookups,
                    warned |-> st.warnings - warnings,
                    moduleBefore |-> userModule.config,
                    prevLoaded |-> IF call.source = "file" THEN call.result
                                   ELSE Nil]
  /\ ncalls' = ncalls + 1
  /\ UNCHANGED customConfig

Next == \E phase \in Phases, dir \in Dirs, inline \in BOOLEAN :
          LoadConfig(phase, dir, inline)

Spec == Init /\ [][Next]_vars

\* ----------------------------------------------------------------- claims
\* Vocabulary of the claims, stated on the last call's inputs and outcome.
Called == call.n > 0
Succeeded == Called /\ call.error = "none"
Failed == Called /\ call.error # "none"
FromFile == Called /\ call.source = "file"
Inline == Called /\ call.source = "inline"
\* The export was usable as a configuration (not a function returning a thenable).
Normalized == FromFile /\ call.error # "promise"

Gives(key) == key \in DOMAIN call.input.props
Given(key) == call.input.props[key]
Returned(key) == call.result.props[key]

DistDirPublic == Gives("distDir") /\ Given("distDir").v = "public"
TargetUnknown ==
  /\ Gives("target")
  /\ Given("target").v \notin {"server", "serverless", "experimental-serverless-trace"}
TargetRejected == TargetUnknown /\ Given("target").v # ""
RuntimeConfigGiven ==
  \/ (Gives("publicRuntimeConfig") /\ DOMAIN Given("publicRuntimeConfig").r # {})
  \/ (Gives("serverRuntimeConfig") /\ DOMAIN Given("serverRuntimeConfig").r # {})
RuntimeConfigRejected ==
  /\ Gives("target")
  /\ Given("target").v \in {"serverless", "experimental-serverless-trace", "bogus"}
  /\ RuntimeConfigGiven
ReactModeUnknown ==
  /\ Gives("experimental")
  /\ "reactMode" \in DOMAIN Given("experimental").r
  /\ Given("experimental").r["reactMode"] \notin {"legacy", "blocking", "concurrent"}
ExperimentalSet == Gives("experimental") /\ Given("experimental").id # "default"

Position(seq, x) == CHOOSE i \in 1..Len(seq) : seq[i] = x

\* C1 (as claimed): after a successful load, every key of the user
\* configuration is returned as the key-by-key merge with the default when
\* both values are plain records, and as exactly the user value otherwise
\* (amp of a file, whose canonicalBase the load rewrites, is left to C5).
C1_MergeOrReplace ==
  (Succeeded /\ call.source \in {"inline", "file"}) =>
    \A k \in DOMAIN call.input.props \ (IF FromFile THEN {"amp"} ELSE {}) :
      LET u == Given(k)
          bothPlain == /\ u.t = "object"
                       /\ k \in DOMAIN InitialDefault.props
                       /\ InitialDefault.props[k].t = "object"
      IN IF bothPlain
         THEN /\ Returned(k).t = "object"
              /\ Returned(k).r = SpreadProps(InitialDefault.props[k].r, u.r)
         ELSE /\ Returned(k).t = u.t
              /\ Returned(k).v = u.v
              /\ Returned(k).r = u.r

\* C2: a call whose user configuration has distDir 'public' raises an error
\* and returns no record; an otherwise valid configuration with any other
\* distDir loads successfully.
C2_DistDirPublic ==
  (Called /\ call.source \in {"inline", "file"}) =>
    /\ DistDirPublic => (call.error # "none" /\ call.result.nil)
    /\ (/\ ~DistDirPublic
        /\ FromFile => (/\ Normalized
                        /\ ~TargetRejected
                        /\ ~RuntimeConfigRejected
                        /\ ~ReactModeUnknown))
         => (call.error = "none" /\ ~call.result.nil)

C2_Witness ==
  /\ Inline
  /\ DistDirPublic
  /\ call.error = "distDir"
  /\ call.n = 2

\* C3 (as claimed): loading a file whose target is present and not one of
\* the three known values raises an error; an absent or known target never
\* raises the target error.
C3_TargetValidated ==
  FromFile =>
    /\ TargetUnknown => call.error # "none"
    /\ ~TargetUnknown => call.error # "target"

\* C4 (as claimed): loading a file whose target is present and not 'server'
\* raises an error if and only if one of the runtime configs has a key; with
\* target 'server' or absent the runtime configs cause no error.
C4_RuntimeConfigIff ==
  FromFile =>
    /\ (Gives("target") /\ Given("target").v # "server")
         => (call.error # "none" <=> RuntimeConfigGiven)
    /\ (~Gives("target") \/ Given("target").v = "server")
         => call.error # "runtimeConfig"

\* C4 (amended): for a file whose configuration has target 'serverless' or
\* 'experimental-serverless-trace', the runtime-config error is raised if and
\* only if one of the runtime configs has a key; with target 'server' or
\* absent the runtime-config error is never raised.
C4_RuntimeConfigError ==
  Normalized =>
    /\ (Gives("target") /\ isTargetLikeServerless(Given("target").v))
         => (call.error = "runtimeConfig" <=> RuntimeConfigGiven)
    /\ (~Gives("target") \/ Given("target").v = "server")
         => call.error # "runtimeConfig"

C4_Witness ==
  /\ FromFile
  /\ Gives("target") /\ Given("target").v = "experimental-serverless-trace"
  /\ Gives("serverRuntimeConfig")
  /\ call.error = "runtimeConfig"

\* C5 (as claimed): after a successful load of a file that gives
\* amp.canonicalBase, the returned amp.canonicalBase does not end with '/',
\* equals the user's value when that had no trailing slash, and
\* 'https://x.com/' has become 'https://x.com'.
C5_TrailingSlashStripped ==
  (FromFile /\ Succeeded /\ Gives("amp")
     /\ "canonicalBase" \in DOMAIN Given("amp").r) =>
    LET given == Given("amp").r["canonicalBase"]
        returned == Returned("amp").r["canonicalBase"]
    IN /\ ~(Len(returned) > 0 /\ returned[Len(returned)] = "/")
       /\ ~(Len(given) > 0 /\ given[Len(given)] = "/") => returned = given
       /\ given = Https => returned = SubSeq(Https, 1, Len(Https) - 1)

\* C6: over any sequence of loadConfig calls the experimental warning is
\* printed at most once, and the flag that records it, once set, stays set.
C6_WarnedOnce ==
  [][/\ used => used'
     /\ warnings' <= 1
     /\ warnings' # warnings => (~used /\ used')]_vars

C6_Witness ==
  /\ call.n >= 2
  /\ Succeeded
  /\ ExperimentalSet
  /\ call.warned = 0
  /\ warnings = 1

\* C7: no load changes the default record, and a call that finds no
\* configuration file and has no inline configuration returns a record equal
\* to the initial default configuration.
C7_DefaultUnchanged ==
  /\ defaultConfig = InitialDefault
  /\ (Called /\ call.source = "none")
       => (call.error = "none" /\ call.result = InitialDefault)

C7_Witness ==
  /\ call.n >= 2
  /\ call.source = "none"
  /\ warnings = 1
  /\ userModule.config # customConfig
  /\ call.result = InitialDefault

\* C8 (as claimed): with an inline configuration no file lookup is made and
\* the returned record's configOrigin is 'server'.
C8_InlineOriginServer ==
  Inline =>
    /\ call.lookups = 0
    /\ Succeeded => Returned("configOrigin") = Str("server")

\* C8 (amended): with an inline configuration no file lookup is made; the
\* call fails only for distDir 'public'; the result has every default key the
\* inline configuration does not give, unchanged, every inline value that is
\* not a plain record as given, every key of an inline plain record as
\* given; and configOrigin is 'server' unless the inline configuration gives
\* its own configOrigin, which is then returned.
C8_InlineMerged ==
  Inline =>
    /\ call.lookups = 0
    /\ Failed <=> DistDirPublic
    /\ Succeeded =>
         /\ \A k \in DOMAIN InitialDefault.props \ (DOMAIN call.input.props \cup {"configOrigin"}) :
              Returned(k) = InitialDefault.props[k]
         /\ \A k \in DOMAIN call.input.props :
              IF Given(k).t = "object"
              THEN /\ Returned(k).t = "object"
                   /\ \A j \in DOMAIN Given(k).r : Returned(k).r[j] = Given(k).r[j]
              ELSE Returned(k) = Given(k)
         /\ Returned("configOrigin") =
              (IF Gives("configOrigin") THEN Given("configOrigin") ELSE Str("server"))

C8_Witness ==
  /\ Inline
  /\ call.dir = "legacy"
  /\ Succeeded
  /\ Gives("onDemandEntries")
  /\ Returned("configOrigin") = Str("server")
  /\ Returned("onDemandEntries").r["pagesBufferLength"] = "2"

C10_NoCarriedState ==
  /\ (FromFile /\ Succeeded /\ call.kind = "object" /\ ~call.prevLoaded.nil)
       => call.result = call.prevLoaded
  /\ (FromFile /\ Failed) => userModule.config = call.moduleBefore

====
